---- MODULE Spec2Model ----
(***************************************************************************)
(* qutebrowser/utils/earlyinit.py: the five early-initialisation steps,    *)
(* called in the order they appear in the file (module docstring, lines    *)
(* 16-21): check_python_version, init_faulthandler, fix_harfbuzz,          *)
(* check_pyqt_core, check_pyqt_webkit.                                     *)
(*                                                                         *)
(* Text streams are sequences of tokens; "\n" is the line end print()      *)
(* appends.  Strings that the code inspects character by character         *)
(* (sys.platform, the formatted version) are sequences of one-character    *)
(* strings.  sys.stdout is taken to be an attached stream; sys.stderr may  *)
(* be None (comment at lines 50-53).                                       *)
(***************************************************************************)
EXTENDS Integers, Sequences, FiniteSets, TLC

\* ---------------------------------------------------------------- bounds
MaxMinor == 4
MaxMicro == 1
MaxArgs == 2

\* ------------------------------------------------------- program constants
\* 0x03030000, line 32
MinHexVersion == 50528256
\* sys.exit(1), lines 36 and 114
ExitFailure == 1

\* ------------------------------------------------------------ host values
Range(s) == {s[i] : i \in DOMAIN s}

SeqsUpTo(S, n) == UNION {[1..k -> S] : k \in 0..n}

\* sys.version_info: major, minor, micro, releaselevel (0xA alpha, 0xF
\* final, as encoded in sys.hexversion), serial
ReleaseLevels == {10, 15}

Versions ==
  [major : 2..3, minor : 2..MaxMinor, micro : 0..MaxMicro,
   releaselevel : ReleaseLevels, serial : {0}]

linux == <<"l", "i", "n", "u", "x">>
linux2 == <<"l", "i", "n", "u", "x", "2">>
darwin == <<"d", "a", "r", "w", "i", "n">>
win32 == <<"w", "i", "n", "3", "2">>
freebsd == <<"f", "r", "e", "e", "b", "s", "d">>

Platforms == {linux, linux2, darwin, win32, freebsd}

ArgTokens == {"--debug", "--verbose"}

\* sys.argv: the program name followed by up to MaxArgs arguments
Argvs == {<<"qutebrowser">> \o a : a \in SeqsUpTo(ArgTokens, MaxArgs)}

QtCore == "PyQt5.QtCore"
QtWidgets == "PyQt5.QtWidgets"
QtWebKit == "PyQt5.QtWebKit"

\* Sets of importable toolkit modules: nothing of PyQt5 loads without QtCore.
ModuleSets ==
  {m \in SUBSET {QtCore, QtWidgets, QtWebKit} : m # {} => QtCore \in m}

EnvVars == {"QT_HARFBUZZ", "HOME"}
EnvValues == {"old", "new"}

\* os.environ before the steps run
Environs == UNION {[d -> EnvValues] : d \in SUBSET EnvVars}

VARIABLES
  version_info,   \* sys.version_info
  platform,       \* sys.platform
  argv,           \* sys.argv
  has_stderr,     \* sys.stderr is not None
  has_SIGUSR1,    \* the signal module offers SIGUSR1
  has_register,   \* hasattr(faulthandler, 'register')
  importable,     \* the toolkit modules an import statement finds
  environ,        \* os.environ
  stdout,         \* tokens written to sys.stdout
  stderr,         \* tokens written to sys.stderr
  calls,          \* library calls made so far, in order
  handlers,       \* fault handlers installed in the process
  step,           \* how many of the five functions have been called
  status,         \* outcome of the last call
  exit_status,    \* <<code>> once sys.exit(code) was called, else <<>>
  exc             \* <<type>> of the exception that left a step, else <<>>

host == <<version_info, platform, argv, has_stderr, has_SIGUSR1,
          has_register, importable>>

vars == <<version_info, platform, argv, has_stderr, has_SIGUSR1,
          has_register, importable, environ, stdout, stderr, calls,
          handlers, step, status, exit_status, exc>>


\* ------------------------------------------------------------ pure helpers
\* sys.hexversion of a version_info (line 32 reads it)
hexversion(v) ==
  v.major * 2^24 + v.minor * 2^16 + v.micro * 2^8
    + v.releaselevel * 2^4 + v.serial

\* variant: the threshold one minor version too low (0x03020000)
TooOld_minor2(hv) == hv < 3 * 2^24 + 2 * 2^16

\* sys.hexversion < 0x03030000 (line 32)
TooOld(hv) == hv < MinHexVersion

Digits == <<"0", "1", "2", "3", "4", "5", "6", "7", "8", "9">>

\* str(n) for a non-negative integer, as map(str, ...) applies it (line 35)
RECURSIVE str(_)
str(n) ==
  IF n < 10 THEN <<Digits[n + 1]>>
  ELSE str(n \div 10) \o <<Digits[(n % 10) + 1]>>

\* sep.join(parts) (line 35)
RECURSIVE join(_, _)
join(sep, parts) ==
  IF parts = <<>> THEN <<>>
  ELSE IF Len(parts) = 1 THEN parts[1]
  ELSE parts[1] \o sep \o join(sep, Tail(parts))

\* '.'.join(map(str, sys.version_info[:3])) (line 35)
VersionString(v) == join(<<".">>, <<str(v.major), str(v.minor), str(v.micro)>>)

\* the formatted message of lines 33-35
VersionMessage(v) ==
  <<"Fatal error: At least Python ", "3", ".", "3",
    " is required to run qutebrowser, but ">>
    \o VersionString(v) \o <<" is installed!">>

\* print(text): the text and a line end go to sys.stdout
print(out, text) == out \o text \o <<"\n">>

\* variant: equality in place of the prefix test
startswith_equal(s, prefix) == s = prefix

\* s.startswith(prefix) (line 76)
startswith(s, prefix) ==
  /\ Len(s) >= Len(prefix)
  /\ SubSeq(s, 1, Len(prefix)) = prefix

\* os.environ[key] = value (line 77)
setenv(env, key, value) ==
  [k \in DOMAIN env \cup {key} |-> IF k = key THEN value ELSE env[k]]

\* '--debug' in sys.argv (lines 111 and 142)
debug(a) == "--debug" \in Range(a)

\* the dedented, stripped text of lines 91-110
CoreRemediation ==
  <<"Fatal error: PyQt5 is required to run qutebrowser but could not be imported! Maybe it's not installed?",
    "On Debian: apt-get install python3-pyqt5 python3-pyqt5.qtwebkit",
    "On Archlinux: pacman -S python-pyqt5 qt5-webkit",
    "On Windows: Use the installer by Riverbank computing",
    "For other distributions: Check your package manager">>

\* what traceback.print_exc() writes
TraceBlock == "Traceback (most recent call last): ... ImportError"

\* variant: traceback.print_exc(file=sys.stdout)
print_exc_stdout(out, err, hasErr) ==
  {[stdout |-> Append(out, TraceBlock), stderr |-> err, raised |-> FALSE]}

\* traceback.print_exc() (lines 113 and 144): no file argument, so the
\* trace goes to sys.stderr.  With sys.stderr None the outcome depends on
\* the interpreter: file.write on None raises AttributeError (3.3, 3.4),
\* or print(..., file=None) falls back to sys.stdout (3.5 and later).
print_exc(out, err, hasErr) ==
  IF hasErr
  THEN {[stdout |-> out, stderr |-> Append(err, TraceBlock), raised |-> FALSE]}
  ELSE {[stdout |-> Append(out, TraceBlock), stderr |-> err, raised |-> FALSE],
        [stdout |-> out, stderr |-> err, raised |-> TRUE]}

\* faulthandler.enable() raises when sys.stderr is None (lines 50-53)
EnableRaises(hasErr) == ~hasErr

\* lines 127-128: the application context, then the critical message box
DialogSetup == <<"QApplication", "QMessageBox.Critical">>

\* variant: the modal exec_ before the resize
DialogShow_execFirst == <<"msgbox.exec_", "msgbox.sizeHint", "msgbox.resize">>

\* lines 145-146: size hint, resize, then the modal exec_
DialogShow == <<"msgbox.sizeHint", "msgbox.resize", "msgbox.exec_">>

\* line 147, run once exec_ has returned
DialogTeardown == <<"app.quit">>

\* --------------------------------------------------------------- the steps
Init ==
  /\ version_info \in Versions
  /\ platform \in Platforms
  /\ argv \in Argvs
  /\ has_stderr \in BOOLEAN
  /\ has_SIGUSR1 = (platform # win32)
  /\ has_register \in (IF platform = win32 THEN {FALSE} ELSE BOOLEAN)
  /\ importable \in ModuleSets
  /\ environ \in Environs
  /\ stdout = <<>>
  /\ stderr = <<>>
  /\ calls = <<>>
  /\ handlers = {}
  /\ step = 0
  /\ status = "Returned"
  /\ exit_status = <<>>
  /\ exc = <<>>

\* the function at position n of the file is called next
Ready(n) == step = n - 1 /\ status = "Returned"

\* lines 30-36
check_python_version ==
  /\ Ready(1)
  /\ step' = 1
  /\ IF TooOld(hexversion(version_info))
     THEN /\ stdout' = print(stdout, VersionMessage(version_info))
          /\ exit_status' = <<ExitFailure>>
          /\ status' = "Terminated"
     ELSE UNCHANGED <<stdout, exit_status, status>>
  /\ UNCHANGED <<host, environ, stderr, calls, handlers, exc>>

\* lines 42-62
init_faulthandler ==
  /\ Ready(2)
  /\ step' = 2
  /\ IF ~has_SIGUSR1
     THEN \* line 48: from signal import SIGUSR1
          /\ exc' = <<"ImportError">>
          /\ status' = "Raised"
          /\ UNCHANGED <<calls, handlers>>
     ELSE IF has_stderr
     THEN \* lines 49-58
          UNCHANGED <<exc, status, calls, handlers>>
     ELSE IF EnableRaises(has_stderr)
     THEN \* line 59
          /\ calls' = Append(calls, "faulthandler.enable")
          /\ exc' = <<"RuntimeError">>
          /\ status' = "Raised"
          /\ UNCHANGED handlers
     ELSE \* lines 59-62
          /\ calls' = calls \o <<"faulthandler.enable">>
                \o (IF has_register THEN <<"faulthandler.register">> ELSE <<>>)
          /\ handlers' = handlers \cup {"fatal"}
                \cup (IF has_register THEN {"SIGUSR1"} ELSE {})
          /\ UNCHANGED <<exc, status>>
  /\ UNCHANGED <<host, environ, stdout, stderr, exit_status>>

\* lines 67-77
fix_harfbuzz ==
  /\ Ready(3)
  /\ step' = 3
  /\ environ' = IF startswith(platform, linux)
                THEN setenv(environ, "QT_HARFBUZZ", "old")
                ELSE environ
  /\ UNCHANGED <<host, stdout, stderr, calls, handlers, status,
                 exit_status, exc>>

\* variant: the except block of check_pyqt_core without its sys.exit(1)
check_pyqt_core_noexit ==
  /\ Ready(4)
  /\ step' = 4
  /\ IF QtCore \in importable
     THEN UNCHANGED <<stdout, stderr, calls>>
     ELSE LET out1 == print(stdout, CoreRemediation) IN
          IF debug(argv)
          THEN /\ stdout' = print(out1, <<>>)
               /\ stderr' = Append(stderr, TraceBlock)
               /\ calls' = Append(calls, "traceback.print_exc")
          ELSE /\ stdout' = out1
               /\ UNCHANGED <<stderr, calls>>
  /\ UNCHANGED <<host, environ, handlers, status, exit_status, exc>>

\* lines 84-114
check_pyqt_core ==
  /\ Ready(4)
  /\ step' = 4
  /\ IF QtCore \in importable
     THEN UNCHANGED <<stdout, stderr, calls, status, exit_status, exc>>
     ELSE LET out1 == print(stdout, CoreRemediation) IN
          IF debug(argv)
          THEN \E r \in print_exc(print(out1, <<>>), stderr, has_stderr) :
                 /\ stdout' = r.stdout
                 /\ stderr' = r.stderr
                 /\ calls' = Append(calls, "traceback.print_exc")
                 /\ IF r.raised
                    THEN /\ exc' = <<"AttributeError">>
                         /\ status' = "Raised"
                         /\ UNCHANGED exit_status
                    ELSE /\ exit_status' = <<ExitFailure>>
                         /\ status' = "Terminated"
                         /\ UNCHANGED exc
          ELSE /\ stdout' = out1
               /\ exit_status' = <<ExitFailure>>
               /\ status' = "Terminated"
               /\ UNCHANGED <<stderr, calls, exc>>
  /\ UNCHANGED <<host, environ, handlers>>

\* lines 119-146, up to the modal exec_ of the message box
check_pyqt_webkit ==
  /\ Ready(5)
  /\ step' = 5
  /\ IF QtWidgets \notin importable
     THEN \* line 121, outside the try
          /\ exc' = <<"ImportError">>
          /\ status' = "Raised"
          /\ UNCHANGED <<stdout, stderr, calls>>
     ELSE IF QtWebKit \in importable
     THEN UNCHANGED <<stdout, stderr, calls, status, exc>>
     ELSE IF debug(argv)
     THEN \E r \in print_exc(print(stdout, <<>>), stderr, has_stderr) :
            /\ stdout' = r.stdout
            /\ stderr' = r.stderr
            /\ IF r.raised
               THEN /\ calls' = calls \o DialogSetup
                                  \o <<"traceback.print_exc">>
                    /\ exc' = <<"AttributeError">>
                    /\ status' = "Raised"
               ELSE /\ calls' = calls \o DialogSetup
                                  \o <<"traceback.print_exc">> \o DialogShow
                    /\ status' = "Dialog"
                    /\ UNCHANGED exc
     ELSE /\ calls' = calls \o DialogSetup \o DialogShow
          /\ status' = "Dialog"
          /\ UNCHANGED <<stdout, stderr, exc>>
  /\ UNCHANGED <<host, environ, handlers, exit_status>>

\* lines 146-147: the user dismisses the dialog, exec_ returns, the
\* application context is quit and check_pyqt_webkit returns to its caller
exec_returns ==
  /\ step = 5
  /\ status = "Dialog"
  /\ calls' = calls \o <<"dismissed">> \o DialogTeardown
  /\ status' = "Returned"
  /\ UNCHANGED <<host, environ, stdout, stderr, handlers, step,
                 exit_status, exc>>

Next ==
  \/ check_python_version
  \/ init_faulthandler
  \/ fix_harfbuzz
  \/ check_pyqt_core
  \/ check_pyqt_webkit
  \/ exec_returns

Spec == Init /\ [][Next]_vars

TypeOK ==
  /\ step \in 0..5
  /\ status \in {"Returned", "Terminated", "Raised", "Dialog"}
  /\ exit_status \in {<<>>, <<ExitFailure>>}


\* ------------------------------------------------------------- properties
Contains(s, sub) ==
  \E i \in 0..(Len(s) - Len(sub)) : SubSeq(s, i + 1, i + Len(sub)) = sub

Has(e) == \E i \in DOMAIN calls : calls[i] = e

Count(e) == Cardinality({i \in DOMAIN calls : calls[i] = e})

Pos(e) == CHOOSE i \in DOMAIN calls : calls[i] = e

\* the version triple is below 3.3.0
BelowMinimum(v) == v.major < 3 \/ (v.major = 3 /\ v.minor < 3)

\* the '--debug' token is among the command-line arguments
DebugFlag == \E i \in DOMAIN argv : argv[i] = "--debug"

\* decimal text of a number below 100
Shown(n) ==
  IF n < 10 THEN <<Digits[n + 1]>>
  ELSE <<Digits[(n \div 10) + 1], Digits[(n % 10) + 1]>>

Detected ==
  Shown(version_info.major) \o <<".">> \o Shown(version_info.minor)
    \o <<".">> \o Shown(version_info.micro)

LinuxFamily == {linux, linux2}

GuiCalls ==
  {"QApplication", "QMessageBox.Critical", "msgbox.sizeHint",
   "msgbox.resize", "msgbox.exec_", "app.quit"}

\* check_pyqt_core has handled a failed import of the toolkit core
CoreFailed == step = 4 /\ QtCore \notin importable

\* check_pyqt_webkit has handled a failed import of the extension
ExtFailed ==
  /\ step = 5
  /\ QtWidgets \in importable
  /\ QtWebKit \notin importable

\* C1: control is past check_pyqt_webkit only if the version gate, the core
\* gate and the extension gate all passed, and a terminated process has
\* exit code 1.
C1_FailFast ==
  /\ (step = 5 /\ status = "Returned") =>
       /\ ~BelowMinimum(version_info)
       /\ QtCore \in importable
       /\ QtWebKit \in importable
  /\ status = "Terminated" => exit_status = <<1>>

\* C2: with the core importable and the extension not, once
\* check_pyqt_webkit is through with its dialog the dialog was shown and
\* the process is terminated with exit code 1.
C2_ExitAfterDialog ==
  (ExtFailed /\ status # "Dialog") =>
    /\ Has("msgbox.exec_")
    /\ status = "Terminated"
    /\ exit_status = <<1>>

\* C3: after init_faulthandler (on a platform that has SIGUSR1),
\* faulthandler.enable was called exactly when sys.stderr is available,
\* and faulthandler.register exactly when moreover the platform offers it.
C3_EnableIffStderr ==
  (step >= 2 /\ has_SIGUSR1) =>
    /\ Has("faulthandler.enable") <=> has_stderr
    /\ Has("faulthandler.register") <=> (has_stderr /\ has_register)

\* C4: init_faulthandler returns normally to its caller on every platform
\* and with every state of sys.stderr.
C4_NeverFails ==
  step = 2 => (status = "Returned" /\ exc = <<>>)

\* C5: with the toolkit core not importable no GUI call is ever made, and
\* once check_pyqt_core has run the remediation message is on standard
\* output and the process is terminated with exit code 1.
C5_CoreMissing ==
  QtCore \notin importable =>
    /\ \A e \in GuiCalls : ~Has(e)
    /\ step <= 4
    /\ step = 4 =>
         /\ status = "Terminated"
         /\ exit_status = <<1>>
         /\ Contains(stdout, CoreRemediation \o <<"\n">>)

C5_Witness ==
  /\ CoreFailed
  /\ status = "Terminated"
  /\ stdout # <<>>

C7_Harfbuzz ==
  [][(step = 2 /\ step' = 3) =>
       /\ IF platform \in LinuxFamily
          THEN /\ DOMAIN environ' = DOMAIN environ \cup {"QT_HARFBUZZ"}
               /\ environ'["QT_HARFBUZZ"] = "old"
          ELSE environ' = environ
       /\ \A k \in EnvVars \ {"QT_HARFBUZZ"} :
            /\ k \in DOMAIN environ' <=> k \in DOMAIN environ
            /\ k \in DOMAIN environ => environ'[k] = environ[k]
       /\ status' = "Returned"
       /\ exc' = <<>>]_vars

C7_Witness ==
  /\ step = 3
  /\ platform = linux2
  /\ "QT_HARFBUZZ" \in DOMAIN environ
  /\ environ["QT_HARFBUZZ"] = "old"
  /\ "HOME" \in DOMAIN environ

\* C8 as stated: after a failure of the core gate or of the extension
\* gate, the trace is on standard output exactly when '--debug' is among
\* the arguments.
C8_TraceOnStdout ==
  (CoreFailed \/ ExtFailed) =>
    (TraceBlock \in Range(stdout) <=> DebugFlag)

\* C8 amended: after a failure of the core gate or of the extension gate,
\* the trace is on standard error exactly when '--debug' is among the
\* arguments and never on standard output; with the flag and the core
\* missing, standard output holds the remediation text and an empty line.
C8_TraceOnStderr ==
  (CoreFailed \/ ExtFailed) =>
    /\ TraceBlock \in Range(stderr) <=> DebugFlag
    /\ TraceBlock \notin Range(stdout)
    /\ (CoreFailed /\ DebugFlag) =>
         stdout = CoreRemediation \o <<"\n", "\n">>
    /\ (ExtFailed /\ DebugFlag) => stdout = <<"\n">>
    /\ ~DebugFlag => Len(stderr) = 0

C8_Witness ==
  /\ CoreFailed
  /\ DebugFlag
  /\ TraceBlock \in Range(stderr)

\* C9: no exception leaves check_python_version, fix_harfbuzz,
\* check_pyqt_core or check_pyqt_webkit (init_faulthandler is C4's).
C9_NoEscape ==
  step # 2 => (status # "Raised" /\ exc = <<>>)

\* C10: on a failure of the extension gate the calls come in the order
\* application context, critical dialog, trace (only with the flag),
\* resize to the size hint, modal exec_, dismissal, quit of the context.
DialogOrder ==
  <<"QApplication", "QMessageBox.Critical", "traceback.print_exc",
    "msgbox.sizeHint", "msgbox.resize", "msgbox.exec_", "dismissed",
    "app.quit">>

C10_DialogOrder ==
  /\ \A i \in DOMAIN DialogOrder : Count(DialogOrder[i]) <= 1
  /\ \A i, j \in DOMAIN DialogOrder :
       (/\ i < j
        /\ Has(DialogOrder[j])
        /\ "traceback.print_exc" \notin {DialogOrder[i], DialogOrder[j]})
         => (Has(DialogOrder[i]) /\ Pos(DialogOrder[i]) < Pos(DialogOrder[j]))
  /\ (step = 5 /\ Has("traceback.print_exc")) =>
       /\ DebugFlag
       /\ Pos("QMessageBox.Critical") < Pos("traceback.print_exc")
       /\ Pos("traceback.print_exc") < Pos("msgbox.sizeHint")
  /\ ExtFailed =>
       /\ Has("msgbox.exec_")
       /\ DebugFlag => Has("traceback.print_exc")
       /\ status = "Dialog" => ~Has("dismissed")
       /\ status # "Dialog" => Has("app.quit")

C10_Witness ==
  /\ ExtFailed
  /\ DebugFlag
  /\ Has("app.quit")

====
